---- MODULE Spec2Model ----
(***************************************************************************)
(* Huckel_Solver.py: the interactive Huckel solver.  The program prompts    *)
(* for a topology, builds the Huckel matrix, asks numpy for its             *)
(* eigenvalues, reduces them to (energy, degeneracy) rows and prints the    *)
(* report and writes it to Huckel_Energies.csv.                             *)
(*                                                                          *)
(* An energy is an integer number of units, 1001 units to the thousandth    *)
(* (1.0 is 1001000); an energy rounded to 3 decimals is an integer number   *)
(* of thousandths.  Matrices are indexed from 0, as in the source.          *)
(* numpy.linalg.eigvals is a library primitive: the model holds the         *)
(* eigenvalues of the matrices the builders return, to the nearest unit.    *)
(***************************************************************************)
EXTENDS Integers, Sequences, FiniteSets, TLC

VARIABLES pc, problem_type, shape, num, matrix, zeros_calls,
          eval_list_fun, evalue_sum_statement, final_list, printed, csv_rows

vars == <<pc, problem_type, shape, num, matrix, zeros_calls,
          eval_list_fun, evalue_sum_statement, final_list, printed, csv_rows>>

\* Largest carbon count typed at a size prompt.
MaxN == 3
\* Longest line typed at a size prompt, in characters.
MaxNumLen == 2
\* Longest energy list handed to the degeneracy reducer on its own.
MaxLen == 3

\* Units of energy to the thousandth, the precision "%.3f" keeps.  The number
\* is odd, so that no energy lies halfway between two thousandths, as no
\* binary float the program formats does but for exact dyadic ties.
UnitsPerThousandth == 1001

\* Huckel_Solver.py:33-34 (and the locals of lines 191-192).
alpha == 0
beta == -1

----------------------------------------------------------------------------
\* Input lines.

Digits == <<"0", "1", "2", "3", "4", "5", "6", "7", "8", "9">>
DigitChars == {Digits[k] : k \in 1..10}
DigitVal(c) == (CHOOSE k \in 1..10 : Digits[k] = c) - 1

\* The characters a size line is made of: the digits up to MaxN, a sign, a
\* blank, a letter, a decimal point.
SizeChars == {Digits[k + 1] : k \in 0..MaxN} \cup {"-", "+", " ", "a", "."}

RECURSIVE lstrip(_)
lstrip(s) == IF s # <<>> /\ Head(s) = " " THEN lstrip(Tail(s)) ELSE s
RECURSIVE rstrip(_)
rstrip(s) ==
    IF s # <<>> /\ s[Len(s)] = " " THEN rstrip(SubSeq(s, 1, Len(s) - 1)) ELSE s
strip(s) == rstrip(lstrip(s))

RECURSIVE DigitsValue(_)
DigitsValue(s) ==
    IF s = <<>> THEN 0
    ELSE 10 * DigitsValue(SubSeq(s, 1, Len(s) - 1)) + DigitVal(s[Len(s)])

\* int(num) raises ValueError: after stripping blanks the line is not an
\* optional sign followed by one or more digits.
ValueError(s) ==
    LET t == strip(s)
        d == IF t # <<>> /\ Head(t) \in {"-", "+"} THEN Tail(t) ELSE t
    IN  d = <<>> \/ \E k \in 1..Len(d) : d[k] \notin DigitChars

\* int(num) when it does not raise.
int(s) ==
    LET t == strip(s)
        neg == t # <<>> /\ Head(t) = "-"
        d == IF t # <<>> /\ Head(t) \in {"-", "+"} THEN Tail(t) ELSE t
    IN  IF neg THEN 0 - DigitsValue(d) ELSE DigitsValue(d)

\* The lines typed at a size prompt: every line of at most MaxNumLen
\* characters that is no integer above MaxN.
SizeLines ==
    {s \in UNION {[1..k -> SizeChars] : k \in 0..MaxNumLen} :
        ValueError(s) \/ int(s) <= MaxN}

\* The lines typed at the two topology prompts, and str.lower() on them.
ProblemLines ==
    {"linear", "LINEAR", "cyclic", "Platonic solid", "exit", "EXIT", "benzene"}
ShapeLines ==
    {"tetrahedron", "Cube", "octahedron", "dodecahedron", "none", "None",
     "sphere"}

lower(s) ==
    CASE s = "LINEAR" -> "linear"
      [] s = "Platonic solid" -> "platonic solid"
      [] s = "EXIT" -> "exit"
      [] s = "Cube" -> "cube"
      [] s = "None" -> "none"
      [] OTHER -> s

----------------------------------------------------------------------------
\* Matrices.  An ndarray is [type, n, a] with a indexed by <<row, column>>.

Idx(n) == 0..(n - 1)

ndarray(n, f) == [type |-> "ndarray", n |-> n, a |-> f]

\* matrix = [] of line 32.
EmptyList == [type |-> "list", n |-> 0, a |-> <<>>]

\* np.zeros((n, n)), n >= 0.
zeros(n) == [p \in Idx(n) \X Idx(n) |-> 0]

\* for i in range(n): m[i,i] = v
SetDiagonal(m, n, v) ==
    [p \in Idx(n) \X Idx(n) |-> IF p[1] = p[2] THEN v ELSE m[p]]

\* for i in range(1,n,1): m[i,i-1] = v
SetSubdiagonal(m, n, v) ==
    [p \in Idx(n) \X Idx(n) |-> IF p[1] >= 1 /\ p[2] = p[1] - 1 THEN v ELSE m[p]]

\* for i in range(1,n,1): m[i-1,i] = v
SetSuperdiagonal(m, n, v) ==
    [p \in Idx(n) \X Idx(n) |-> IF p[2] >= 1 /\ p[1] = p[2] - 1 THEN v ELSE m[p]]

\* Lines 101-115, n >= 0.
base_matrix_linear(n) ==
    ndarray(n,
        SetSuperdiagonal(
            SetSubdiagonal(SetDiagonal(zeros(n), n, alpha), n, beta), n, beta))

\* Lines 134-154, n >= 1: the linear fill, then the two assignments of
\* lines 149 and 152, in that order.
base_matrix_cyclic(n) ==
    LET m3 == base_matrix_linear(n).a
        m4 == [m3 EXCEPT ![<<0, n - 1>>] = beta]
        m5 == [m4 EXCEPT ![<<n - 1, 0>>] = beta]
    IN  ndarray(n, m5)

\* Lines 203-211.
base_matrix_tetrahedron ==
    ndarray(4, SetDiagonal([p \in Idx(4) \X Idx(4) |-> beta], 4, alpha))

\* OctahedronLoop with the antipode of i taken to be (i + 3) mod 6.
RECURSIVE OctahedronLoop_antipode(_, _)
OctahedronLoop_antipode(m, i) ==
    IF i = 6 THEN m
    ELSE OctahedronLoop_antipode(
            [[m EXCEPT ![<<i, i>>] = alpha] EXCEPT ![<<i, (i + 3) % 6>>] = 0],
            i + 1)

\* Lines 223-227: per i, first the diagonal, then the antipode.
RECURSIVE OctahedronLoop(_, _)
OctahedronLoop(m, i) ==
    IF i = 6 THEN m
    ELSE OctahedronLoop(
            [[m EXCEPT ![<<i, i>>] = alpha] EXCEPT ![<<i, 6 - i - 1>>] = 0],
            i + 1)

\* Lines 216-229.
huckel_matrix_octahedron ==
    ndarray(6, OctahedronLoop([p \in Idx(6) \X Idx(6) |-> 0 + beta], 0))

\* column_elem with the last row listing 4 in place of 5.
column_elem_asym ==
    << <<1,2,4>>, <<0,3,5>>, <<0,3,6>>, <<1,2,7>>, <<0,5,6>>,
       <<1,4,7>>, <<2,4,7>>, <<3,4,6>> >>

\* Lines 239-240; row i of the source is element i + 1 here.
column_elem ==
    << <<1,2,4>>, <<0,3,5>>, <<0,3,6>>, <<1,2,7>>, <<0,5,6>>,
       <<1,4,7>>, <<2,4,7>>, <<3,5,6>> >>

\* column_elem_dodec with the bonds 0-13 and 1-5 replaced by 0-1 and 5-13:
\* still 3 bonds per vertex, listed both ways.
column_elem_dodec_switched ==
    << <<1,14,15>>, <<0,4,12>>, <<6,13,18>>, <<7,14,19>>,
       <<1,10,18>>, <<11,13,19>>, <<2,10,15>>, <<3,11,15>>,
       <<9,13,16>>, <<8,14,17>>, <<4,6,11>>, <<5,7,10>>,
       <<1,16,17>>, <<2,5,8>>, <<0,3,9>>, <<0,6,7>>,
       <<8,12,18>>, <<9,12,19>>, <<2,4,16>>, <<3,5,17>> >>

\* Lines 256-260.
column_elem_dodec ==
    << <<13,14,15>>, <<4,5,12>>, <<6,13,18>>, <<7,14,19>>,
       <<1,10,18>>, <<1,11,19>>, <<2,10,15>>, <<3,11,15>>,
       <<9,13,16>>, <<8,14,17>>, <<4,6,11>>, <<5,7,10>>,
       <<1,16,17>>, <<0,2,8>>, <<0,3,9>>, <<0,6,7>>,
       <<8,12,18>>, <<9,12,19>>, <<2,4,16>>, <<3,5,17>> >>

\* for i in range(len(table)): m[i, table[i][k]] = beta for k = 0, 1, 2
FillFromTable(m, n, table) ==
    [p \in Idx(n) \X Idx(n) |->
        IF p[1] < Len(table) /\ \E k \in 1..3 : table[p[1] + 1][k] = p[2]
        THEN beta ELSE m[p]]

\* Lines 234-246.
base_matrix_cube ==
    ndarray(8, FillFromTable(SetDiagonal(zeros(8), 8, alpha), 8, column_elem))

\* Lines 251-266.
base_matrix_dodec ==
    ndarray(20,
        FillFromTable(SetDiagonal(zeros(20), 20, alpha), 20, column_elem_dodec))

----------------------------------------------------------------------------
\* Eigenvalues and the degeneracy reducer.

\* The energies the reducer is tried on by itself, ascending: -1.0004,
\* -0.9996, and energies on both sides of -0.0005 and of 0.0005.
DegenDomain == <<-1001400, -1000600, -501, -500, 0, 500, 501, 1400>>

Repeat(v, c) == [k \in 1..c |-> v]

\* The ascending lists of n values among the first k values of dom.
RECURSIVE AscendingLists(_, _, _)
AscendingLists(n, k, dom) ==
    IF k = 0 THEN (IF n = 0 THEN {<<>>} ELSE {})
    ELSE UNION {{s \o Repeat(dom[k], c) : s \in AscendingLists(n - c, k - 1, dom)} :
                    c \in 0..n}

\* The eigenvalues, ascending and to the nearest unit, of the matrix of
\* linear(n), n = 1..6: alpha + 2 beta cos(k pi / (n + 1)), k = 1..n.
LinearSpectrum ==
    << <<0>>,
       <<-1001000, 1001000>>,
       <<-1415628, 0, 1415628>>,
       <<-1619652, -618652, 618652, 1619652>>,
       <<-1733783, -1001000, 0, 1001000, 1733783>>,
       <<-1803740, -1248227, -445487, 445487, 1248227, 1803740>> >>

\* Those of the matrix of cyclic(n), n = 1..6: of [[beta]] for n = 1, of
\* linear(2) for n = 2, alpha + 2 beta cos(2 k pi / n), k = 1..n, from 3 on.
CyclicSpectrum ==
    << <<-1001000>>,
       <<-1001000, 1001000>>,
       <<-2002000, 1001000, 1001000>>,
       <<-2002000, 0, 0, 2002000>>,
       <<-2002000, -618652, -618652, 1619652, 1619652>>,
       <<-2002000, -1001000, -1001000, 1001000, 1001000, 2002000>> >>

\* Those of the tetrahedron, octahedron, cube and dodecahedron matrices
\* (2238304 units are the square root of 5).
TetrahedronSpectrum == <<-3003000, 1001000, 1001000, 1001000>>
OctahedronSpectrum == <<-4004000, 0, 0, 0, 2002000, 2002000>>
CubeSpectrum == <<-3003000, -1001000, -1001000, -1001000, 1001000, 1001000, 1001000, 3003000>>
DodecahedronSpectrum ==
    <<-3003000, -2238304, -2238304, -2238304, -1001000, -1001000,
       -1001000, -1001000, -1001000, 0, 0, 0, 0, 2002000, 2002000,
       2002000, 2002000, 2238304, 2238304, 2238304>>

\* np.linalg.eigvals(m) sorted by np.sort, lines 162-165.
eigvals_sorted(m) ==
    CASE m.n = 0 -> <<>>
      [] m.n = 4 /\ m.a = base_matrix_tetrahedron.a -> TetrahedronSpectrum
      [] m.n = 6 /\ m.a = huckel_matrix_octahedron.a -> OctahedronSpectrum
      [] m.n = 8 /\ m.a = base_matrix_cube.a -> CubeSpectrum
      [] m.n = 20 /\ m.a = base_matrix_dodec.a -> DodecahedronSpectrum
      [] m.n \in 1..6 /\ m.a = base_matrix_linear(m.n).a -> LinearSpectrum[m.n]
      [] m.n \in 1..6 /\ m.a = base_matrix_cyclic(m.n).a -> CyclicSpectrum[m.n]

\* get_evals(), lines 159-168: the same list at each of its three calls
\* (line 62, and line 173 from lines 69 and 79).
get_evals(m) == eigvals_sorted(m)

RECURSIVE sum(_)
sum(l) == IF l = <<>> THEN 0 ELSE Head(l) + sum(Tail(l))

\* "%.3f" % e read back as a number: the thousandth nearest to the energy e.
\* The thousandth 0 stands for both 0.0 and -0.0, which Python's ==, set
\* and count do not tell apart.
Round3(e) == (2 * e + UnitsPerThousandth) \div (2 * UnitsPerThousandth)

\* Lexicographic order of two [energy, count] pairs.
PairLess(a, b) == a[1] < b[1] \/ (a[1] = b[1] /\ a[2] < b[2])

\* sorted(pairs, reverse=True).
RECURSIVE sorted_descending(_)
sorted_descending(S) ==
    IF S = {} THEN <<>>
    ELSE LET greatest == CHOOSE a \in S : \A b \in S \ {a} : PairLess(b, a)
         IN  <<greatest>> \o sorted_descending(S \ {greatest})

\* sorted(pairs), with pairs given as the set of its elements.
RECURSIVE sorted(_)
sorted(S) ==
    IF S = {} THEN <<>>
    ELSE LET least == CHOOSE a \in S : \A b \in S \ {a} : PairLess(a, b)
         IN  <<least>> \o sorted(S \ {least})

\* Line 183.
degeneracy_base == << <<"Energy", "Degeneracy">> >>

\* l.count(x)
count(l, x) == Cardinality({k \in 1..Len(l) : l[k] = x})

\* Line 182.
nice_eval_list(eval_list) == [k \in 1..Len(eval_list) |-> Round3(eval_list[k])]

\* degeneracies counting x in eval_list, the energies before rounding.
degeneracies_raw_count(eval_list) ==
    LET nice == nice_eval_list(eval_list)
    IN  {<<x, count(eval_list, x)>> : x \in {nice[k] : k \in 1..Len(nice)}}

\* Line 184: one [x, count] pair per member of set(nice_eval_list).
degeneracies(eval_list) ==
    LET nice == nice_eval_list(eval_list)
    IN  {<<x, count(nice, x)>> : x \in {nice[k] : k \in 1..Len(nice)}}

\* Degeneracy_count(), lines 182-187, on the list get_evals() returned.
Degeneracy_count(eval_list) == degeneracy_base \o sorted(degeneracies(eval_list))

\* Lines 66-67 (and 175-176).
SumStatement(eval_list) ==
    <<"The sum of the Huckel energies is ", Round3(sum(eval_list))>>

----------------------------------------------------------------------------
\* The program.

Init ==
    /\ pc = "problem_prompt"
    /\ problem_type = ""
    /\ shape = ""
    /\ num = <<>>
    /\ matrix = EmptyList
    /\ zeros_calls = {}
    /\ eval_list_fun = <<>>
    /\ evalue_sum_statement = <<>>
    /\ final_list = <<>>
    /\ printed = <<>>
    /\ csv_rows = <<>>

\* Lines 43-60: one pass of the top-level loop up to the builder's prompt.
ProblemPrompt ==
    /\ pc = "problem_prompt"
    /\ \E line \in ProblemLines :
        /\ problem_type' = line
        /\ pc' = CASE lower(line) = "linear" -> "linear_prompt"
                   [] lower(line) = "cyclic" -> "cyclic_prompt"
                   [] lower(line) = "platonic solid" -> "shape_prompt"
                   [] line = "exit" -> "exited"
                   [] OTHER -> "problem_prompt"
    /\ UNCHANGED <<shape, num, matrix, zeros_calls, eval_list_fun, evalue_sum_statement,
                   final_list, printed, csv_rows>>

\* Lines 91-115 and 47-48: one line at the linear size prompt.  A line int()
\* rejects prompts again; np.zeros raises ValueError for a negative n.
LinearPrompt ==
    /\ pc = "linear_prompt"
    /\ \E line \in SizeLines :
        /\ num' = line
        /\ IF ValueError(line)
           THEN UNCHANGED <<pc, matrix, zeros_calls>>
           ELSE /\ zeros_calls' = zeros_calls \cup {int(line)}
                /\ IF int(line) < 0
                   THEN pc' = "crashed" /\ UNCHANGED matrix
                   ELSE pc' = "solve" /\ matrix' = base_matrix_linear(int(line))
    /\ UNCHANGED <<problem_type, shape, eval_list_fun, evalue_sum_statement, final_list,
                   printed, csv_rows>>

\* Lines 124-154 and 50-51: one line at the cyclic size prompt.  np.zeros
\* raises ValueError for a negative n, line 149 IndexError for n = 0.
CyclicPrompt ==
    /\ pc = "cyclic_prompt"
    /\ \E line \in SizeLines :
        /\ num' = line
        /\ IF ValueError(line)
           THEN UNCHANGED <<pc, matrix, zeros_calls>>
           ELSE /\ zeros_calls' = zeros_calls \cup {int(line)}
                /\ IF int(line) < 1
                   THEN pc' = "crashed" /\ UNCHANGED matrix
                   ELSE pc' = "solve" /\ matrix' = base_matrix_cyclic(int(line))
    /\ UNCHANGED <<problem_type, shape, eval_list_fun, evalue_sum_statement, final_list,
                   printed, csv_rows>>

\* Lines 194-274 and 53-54: one line at the shape prompt.
ShapePrompt ==
    /\ pc = "shape_prompt"
    /\ \E line \in ShapeLines :
        /\ shape' = line
        /\ CASE lower(line) = "tetrahedron" ->
                  /\ matrix' = base_matrix_tetrahedron
                  /\ pc' = "solve"
                  /\ UNCHANGED zeros_calls
             [] lower(line) = "octahedron" ->
                  /\ matrix' = huckel_matrix_octahedron
                  /\ pc' = "solve"
                  /\ zeros_calls' = zeros_calls \cup {6}
             [] lower(line) = "cube" ->
                  /\ matrix' = base_matrix_cube
                  /\ pc' = "solve"
                  /\ zeros_calls' = zeros_calls \cup {8}
             [] lower(line) = "dodecahedron" ->
                  /\ matrix' = base_matrix_dodec
                  /\ pc' = "solve"
                  /\ zeros_calls' = zeros_calls \cup {20}
             [] line = "none" ->
                  /\ pc' = "exited"
                  /\ UNCHANGED <<matrix, zeros_calls>>
             [] OTHER -> UNCHANGED <<pc, matrix, zeros_calls>>
    /\ UNCHANGED <<problem_type, num, eval_list_fun, evalue_sum_statement, final_list,
                   printed, csv_rows>>

\* Lines 62-69: the eigenvalues, the sum statement and the table.
Solve ==
    /\ pc = "solve"
    /\ eval_list_fun' = get_evals(matrix)
    /\ evalue_sum_statement' = SumStatement(get_evals(matrix))
    /\ final_list' = Degeneracy_count(get_evals(matrix))
    /\ pc' = "print"
    /\ UNCHANGED <<problem_type, shape, num, matrix, zeros_calls, printed,
                   csv_rows>>

\* Line 162 on a 0 x 0 matrix: numpy releases that refuse empty arrays raise
\* LinAlgError, the others return no eigenvalue (Solve).
SolveFails ==
    /\ pc = "solve"
    /\ matrix.n = 0
    /\ pc' = "crashed"
    /\ UNCHANGED <<problem_type, shape, num, matrix, zeros_calls, eval_list_fun,
                   evalue_sum_statement, final_list, printed, csv_rows>>

\* Lines 72-73: one row of final_list.
PrintRow ==
    /\ pc = "print"
    /\ Len(printed) < Len(final_list)
    /\ printed' = Append(printed, final_list[Len(printed) + 1])
    /\ UNCHANGED <<pc, problem_type, shape, num, matrix, zeros_calls,
                   eval_list_fun, evalue_sum_statement, final_list, csv_rows>>

\* Lines 74-75.
PrintSum ==
    /\ pc = "print"
    /\ Len(printed) = Len(final_list)
    /\ printed' = Append(printed, evalue_sum_statement)
    /\ pc' = "csv_open"
    /\ UNCHANGED <<problem_type, shape, num, matrix, zeros_calls, eval_list_fun,
                   evalue_sum_statement, final_list, csv_rows>>

\* Line 78 raising OSError (the file cannot be created or written): the
\* program stops after the report was printed, with nothing in the file.
CsvOpenFails ==
    /\ pc = "csv_open"
    /\ pc' = "crashed"
    /\ UNCHANGED <<problem_type, shape, num, matrix, zeros_calls, eval_list_fun,
                   evalue_sum_statement, final_list, printed, csv_rows>>

\* Line 78: the file is opened for writing, empty.
CsvOpen ==
    /\ pc = "csv_open"
    /\ csv_rows' = <<>>
    /\ pc' = "csv_write"
    /\ UNCHANGED <<problem_type, shape, num, matrix, zeros_calls, eval_list_fun,
                   evalue_sum_statement, final_list, printed>>

\* Lines 79-80: one row of Degeneracy_count(), computed again from matrix.
CsvWriteRow ==
    /\ pc = "csv_write"
    /\ Len(csv_rows) < Len(Degeneracy_count(get_evals(matrix)))
    /\ csv_rows' = Append(csv_rows,
                        Degeneracy_count(get_evals(matrix))[Len(csv_rows) + 1])
    /\ UNCHANGED <<pc, problem_type, shape, num, matrix, zeros_calls,
                   eval_list_fun, evalue_sum_statement, final_list, printed>>

\* Lines 81-82.
CsvWriteSum ==
    /\ pc = "csv_write"
    /\ Len(csv_rows) = Len(Degeneracy_count(get_evals(matrix)))
    /\ csv_rows' = Append(csv_rows, evalue_sum_statement)
    /\ pc' = "done"
    /\ UNCHANGED <<problem_type, shape, num, matrix, zeros_calls, eval_list_fun,
                   evalue_sum_statement, final_list, printed>>

Next ==
    \/ ProblemPrompt
    \/ LinearPrompt
    \/ CyclicPrompt
    \/ ShapePrompt
    \/ Solve
    \/ SolveFails
    \/ PrintRow
    \/ PrintSum
    \/ CsvOpen
    \/ CsvOpenFails
    \/ CsvWriteRow
    \/ CsvWriteSum

Spec == Init /\ [][Next]_vars

----------------------------------------------------------------------------
\* The degeneracy reducer by itself, on every ascending list of at most
\* MaxLen energies of DegenDomain.

DegenInit ==
    /\ pc = "degeneracy_count"
    /\ eval_list_fun \in
          UNION {AscendingLists(n, Len(DegenDomain), DegenDomain) : n \in 0..MaxLen}
    /\ problem_type = ""
    /\ shape = ""
    /\ num = <<>>
    /\ matrix = EmptyList
    /\ zeros_calls = {}
    /\ evalue_sum_statement = <<>>
    /\ final_list = <<>>
    /\ printed = <<>>
    /\ csv_rows = <<>>

DegeneracyStep ==
    /\ pc = "degeneracy_count"
    /\ final_list' = Degeneracy_count(eval_list_fun)
    /\ evalue_sum_statement' = SumStatement(eval_list_fun)
    /\ pc' = "degeneracy_done"
    /\ UNCHANGED <<problem_type, shape, num, matrix, zeros_calls, eval_list_fun,
                   printed, csv_rows>>

DegenNext == DegeneracyStep

DegenSpec == DegenInit /\ [][DegenNext]_vars

----------------------------------------------------------------------------
\* What the properties speak of.

\* A builder has returned and line 47, 50 or 53 has assigned its matrix.
Built == matrix.type = "ndarray"

BuiltLinear == Built /\ lower(problem_type) = "linear"
BuiltCyclic == Built /\ lower(problem_type) = "cyclic"
BuiltShape(s) == Built /\ lower(problem_type) = "platonic solid" /\ lower(shape) = s

RECURSIVE DiagonalSum(_, _)
DiagonalSum(m, k) == IF k = 0 THEN 0 ELSE m.a[<<k - 1, k - 1>>] + DiagonalSum(m, k - 1)

Trace(m) == DiagonalSum(m, m.n)

Symmetric(m) == \A i, j \in Idx(m.n) : m.a[<<i, j>>] = m.a[<<j, i>>]

\* Row i of a table lists j exactly when row j lists i.
TableSymmetric(table) ==
    \A i, j \in Idx(Len(table)) :
        (\E k \in 1..3 : table[i + 1][k] = j) <=> (\E k \in 1..3 : table[j + 1][k] = i)

\* The columns of row i that hold beta, and the zero ones off the diagonal.
BetaColumns(m, i) == {j \in Idx(m.n) : m.a[<<i, j>>] = beta}
ZeroColumns(m, i) == {j \in Idx(m.n) \ {i} : m.a[<<i, j>>] = 0}

Regular(m, n, deg) ==
    /\ m.n = n
    /\ \A i \in Idx(n) : Cardinality(BetaColumns(m, i)) = deg /\ i \notin BetaColumns(m, i)

\* The bonding graph of a matrix.
Bonded(m, i, j) == i # j /\ m.a[<<i, j>>] = beta
Neighbours(m, i) == {j \in Idx(m.n) : Bonded(m, i, j)}
Edges(m) == {p \in Idx(m.n) \X Idx(m.n) : p[1] < p[2] /\ Bonded(m, p[1], p[2])}

\* The vertices of cur are d bonds away from a vertex v of m's graph, those
\* of prev d - 1, and seen are all those at most d bonds away.  From cur
\* outwards, the spheres around v have sizes[d + 1] vertices, and a vertex u
\* at distance d has nearer[d] neighbours at distance d - 1 and farther[d] at
\* distance d + 1; beyond distance Len(nearer) there is nothing and seen is
\* every vertex.
RECURSIVE DistanceRegularFrom(_, _, _, _, _, _, _, _)
DistanceRegularFrom(m, seen, prev, cur, d, sizes, nearer, farther) ==
    LET next == {w \in Idx(m.n) \ seen : \E u \in cur : Bonded(m, u, w)}
    IN  /\ Cardinality(cur) = sizes[d + 1]
        /\ d >= 1 =>
              \A u \in cur :
                  /\ Cardinality({w \in prev : Bonded(m, u, w)}) = nearer[d]
                  /\ Cardinality({w \in next : Bonded(m, u, w)}) = farther[d]
        /\ IF d = Len(nearer)
           THEN next = {} /\ seen = Idx(m.n)
           ELSE DistanceRegularFrom(m, seen \cup next, cur, next, d + 1,
                                    sizes, nearer, farther)

\* The bits of i and j (3-bit indices) differ in exactly one place.
DifferInOneBit(i, j) ==
    \E b \in {1, 2, 4} :
        \/ j = i + b /\ (i \div b) % 2 = 0
        \/ i = j + b /\ (j \div b) % 2 = 0

\* The skeleton of the dodecahedron: 20 vertices and 30 bonds, 3 per vertex,
\* connected, no cycle of 3 or 4 bonds, and from every vertex 1, 3, 6, 6, 3, 1
\* vertices at distances 0..5; moreover a vertex at distance d from v has
\* <<1,1,1,2,3>>[d] neighbours nearer to v and <<2,1,1,1,0>>[d] farther from
\* v (the intersection array that determines the graph up to isomorphism).
Dodecahedral(m) ==
    /\ Regular(m, 20, 3)
    /\ Symmetric(m)
    /\ Cardinality(Edges(m)) = 30
    /\ \A i, j \in Idx(20) :
          i # j =>
            LET common == {w \in Idx(20) : Bonded(m, i, w) /\ Bonded(m, j, w)}
            IN  Cardinality(common) <= (IF Bonded(m, i, j) THEN 0 ELSE 1)
    /\ \A v \in Idx(20) :
          DistanceRegularFrom(m, {v}, {}, {v}, 0,
              <<1, 3, 6, 6, 3, 1>>, <<1, 1, 1, 2, 3>>, <<2, 1, 1, 1, 0>>)

\* The program has stopped: sys.exit(), an uncaught exception, or the end.
Stopped == pc \in {"exited", "crashed", "done"}

\* The report is being, or has been, emitted.
Reporting == pc \in {"print", "csv_open", "csv_write", "done"}

\* The complete report: header, degeneracy rows, sum statement.
Report == Degeneracy_count(eval_list_fun) \o <<SumStatement(eval_list_fun)>>

SameLines(a, b) == Len(a) = Len(b) /\ a = b

\* The counts of the rows of a table, header excluded.
RECURSIVE CountSum(_, _)
CountSum(t, k) == IF k <= 1 THEN 0 ELSE t[k][2] + CountSum(t, k - 1)

----------------------------------------------------------------------------
\* Properties.

\* C1: every matrix a builder returns for n >= 1 has alpha on its whole
\* diagonal, so its trace is n * alpha (0 with the default alpha).
C1_TraceIsNAlpha ==
    (Built /\ matrix.n >= 1) =>
        /\ \A i \in Idx(matrix.n) : matrix.a[<<i, i>>] = alpha
        /\ Trace(matrix) = matrix.n * alpha

\* C2: every matrix a builder returns is symmetric, M[i][j] = M[j][i]; and
\* in the cube and dodecahedron tables row i lists j exactly when row j
\* lists i.
C2_Symmetric ==
    /\ Built => Symmetric(matrix)
    /\ BuiltShape("cube") => TableSymmetric(column_elem)
    /\ BuiltShape("dodecahedron") => TableSymmetric(column_elem_dodec)

\* C2: the cube matrix has been returned, with bond (0, 4) in it.
C2_Witness ==
    /\ pc = "solve"
    /\ BuiltShape("cube")
    /\ matrix.a[<<0, 4>>] = beta /\ matrix.a[<<4, 0>>] = beta

\* C3: each row of a Platonic-solid matrix has the right number of beta
\* entries, none on the diagonal: 3 for the tetrahedron (4 x 4), the cube
\* (8 x 8) and the dodecahedron (20 x 20), 4 for the octahedron (6 x 6),
\* whose row i has its only off-diagonal zero at column 5 - i.
C3_Degrees ==
    /\ BuiltShape("tetrahedron") => Regular(matrix, 4, 3)
    /\ BuiltShape("cube") => Regular(matrix, 8, 3)
    /\ BuiltShape("dodecahedron") => Regular(matrix, 20, 3)
    /\ BuiltShape("octahedron") =>
          /\ Regular(matrix, 6, 4)
          /\ \A i \in Idx(6) : ZeroColumns(matrix, i) = {5 - i}

\* C3: the octahedron matrix has been returned.
C3_Witness ==
    /\ BuiltShape("octahedron")
    /\ matrix.n = 6
    /\ matrix.a[<<2, 3>>] = 0 /\ matrix.a[<<2, 4>>] = beta

\* C4: the counts of the rows of the table (header excluded) add up to the
\* number of energies handed to the reducer, the size of the matrix.
C4_CountsSumToN ==
    Reporting =>
        /\ Len(eval_list_fun) = matrix.n
        /\ CountSum(final_list, Len(final_list)) = Len(eval_list_fun)

\* C4: a table has been produced for three energies or more, two of them in
\* one row.
C4_Witness ==
    /\ Reporting
    /\ Len(eval_list_fun) >= 3
    /\ Len(final_list) >= 3
    /\ \E k \in 2..Len(final_list) : final_list[k][2] >= 2

\* C5: the table starts with the header row; the energies of the rows after
\* it are strictly ascending, so no rounded energy occurs twice; each row's
\* count is the number of energies of the list that round to its energy, and
\* is positive; every energy of the list has its row.
C5_TableSorted ==
    pc = "degeneracy_done" =>
        /\ Len(final_list) >= 1
        /\ final_list[1] = <<"Energy", "Degeneracy">>
        /\ \A k \in 2..(Len(final_list) - 1) : final_list[k][1] < final_list[k + 1][1]
        /\ \A k \in 2..Len(final_list) :
              /\ final_list[k][2] >= 1
              /\ final_list[k][2] =
                    Cardinality({i \in 1..Len(eval_list_fun) :
                                    Round3(eval_list_fun[i]) = final_list[k][1]})
        /\ \A i \in 1..Len(eval_list_fun) :
              \E k \in 2..Len(final_list) : final_list[k][1] = Round3(eval_list_fun[i])

\* C5: the reducer has returned a table of two rows or more, one of them
\* counting two different energies.
C5_Witness ==
    /\ pc = "degeneracy_done"
    /\ Len(final_list) >= 3
    /\ \E k \in 2..Len(final_list) : final_list[k][2] >= 2
    /\ \E i, j \in 1..Len(eval_list_fun) :
          /\ eval_list_fun[i] # eval_list_fun[j]
          /\ Round3(eval_list_fun[i]) = Round3(eval_list_fun[j])

\* C6: a size that is not a positive integer never reaches the allocation of
\* the matrix or the eigen-solver: np.zeros is only ever called for n >= 1,
\* and a linear or cyclic matrix exists only for n >= 1.
C6_OnlyPositiveSizes ==
    /\ \A n \in zeros_calls : n >= 1
    /\ (BuiltLinear \/ BuiltCyclic) => matrix.n >= 1

\* The lines the topology prompts recognize as a kind.
RecognizedProblem(line) == lower(line) \in {"linear", "cyclic", "platonic solid"}
RecognizedShape(line) ==
    lower(line) \in {"tetrahedron", "cube", "octahedron", "dodecahedron"}

\* A step that reads an unrecognized line at a topology prompt stays there and
\* leaves matrix alone.
C7_Retry ==
    /\ (pc = "problem_prompt" /\ ~RecognizedProblem(problem_type')
            /\ problem_type' # "exit")
          => (pc' = "problem_prompt" /\ matrix' = matrix)
    /\ (pc = "shape_prompt" /\ ~RecognizedShape(shape') /\ shape' # "none")
          => (pc' = "shape_prompt" /\ matrix' = matrix)

\* The eigen-solve stage and what follows have a matrix of a recognized kind.
C7_SolveOnlyWithMatrix ==
    (pc = "solve" \/ Reporting) =>
        /\ Built
        /\ RecognizedProblem(problem_type)
        /\ lower(problem_type) = "platonic solid" => RecognizedShape(shape)

\* A program that has stopped without a matrix was given an exit sentinel.
C7_StopsWithoutMatrixOnlyOnSentinel ==
    (Stopped /\ ~Built) => (problem_type = "exit" \/ shape = "none")

\* C7: at a topology prompt an unrecognized line leaves matrix unchanged and
\* leads back to the same prompt; the eigen-solve stage is reached only after
\* a recognized kind has produced a matrix; and the program stops without a
\* matrix only on the exit sentinel of a topology prompt.
C7_SelectionLoops ==
    /\ [][C7_Retry]_vars
    /\ [](C7_SolveOnlyWithMatrix)
    /\ [](C7_StopsWithoutMatrixOnlyOnSentinel)

\* C8: a run that has stopped has emitted the complete report (header row,
\* every degeneracy row, the sum statement) on the terminal and in the CSV
\* file, or nothing of it; and a run that has begun to emit it can always go
\* on, up to the end.
C8_AllOrNothing ==
    /\ pc \in {"exited", "crashed"} => (printed = <<>> /\ csv_rows = <<>>)
    /\ pc = "done" => (SameLines(printed, Report) /\ SameLines(csv_rows, Report))
    /\ pc \in {"print", "csv_open", "csv_write"} =>
          ENABLED (PrintRow \/ PrintSum \/ CsvOpen \/ CsvWriteRow \/ CsvWriteSum)

\* C9: in the cube matrix i and j are bonded exactly when their 3-bit indices
\* differ in one bit (8 vertices, 12 bonds); the dodecahedron matrix is the
\* skeleton of the dodecahedron.
C9_Polyhedra ==
    /\ BuiltShape("cube") =>
          /\ matrix.n = 8
          /\ \A i, j \in Idx(8) : Bonded(matrix, i, j) <=> DifferInOneBit(i, j)
          /\ Cardinality(Edges(matrix)) = 12
    /\ BuiltShape("dodecahedron") => Dodecahedral(matrix)

\* C9: the dodecahedron matrix has been returned and its report is out.
C9_Witness ==
    /\ pc = "done"
    /\ BuiltShape("dodecahedron")
    /\ Cardinality(Edges(matrix)) = 30

\* C10: cyclic(n) is the matrix of linear(n) for n = 1 and n = 2, and for
\* n >= 3 the matrix of linear(n) with only (0, n-1) and (n-1, 0) set to beta.
C10_CyclicVsLinear ==
    BuiltCyclic =>
        /\ matrix.n \in {1, 2} => matrix = base_matrix_linear(matrix.n)
        /\ matrix.n >= 3 =>
              \A p \in Idx(matrix.n) \X Idx(matrix.n) :
                  matrix.a[p] = IF p \in {<<0, matrix.n - 1>>, <<matrix.n - 1, 0>>}
                                THEN beta
                                ELSE base_matrix_linear(matrix.n).a[p]

====
